---- MODULE Spec2Model ----
(***************************************************************************)
(* Fabric Pulse AI: the alert rate limiter of EnhancedWhatsAppService      *)
(* (backend/backend/whatsapp_service.py), the hierarchy aggregation of     *)
(* FabricPulseRTMSEngine (backend/main.py), and the efficiency classifiers *)
(* and underperformer detectors (backend/main.py,                          *)
(* backend/fabric_pulse_ai_main.py).                                       *)
(*                                                                         *)
(* Time is counted in whole minutes since midnight of day 0.               *)
(* Efficiencies are exact rationals <<numerator, denominator>>; a rounded  *)
(* efficiency (round(x, 2)) is an integer number of hundredths of a        *)
(* percent.                                                                *)
(***************************************************************************)
EXTENDS Integers, Sequences, FiniteSets, TLC

VARIABLES
    now,                \* the wall clock (datetime.now()), in minutes
    last_alert_times,   \* EnhancedWhatsAppService.last_alert_times: key -> time
    daily_alert_count,  \* EnhancedWhatsAppService.daily_alert_count: day -> count
    threads,            \* per caller of send_alert: its position in send_alert
    sent_last,          \* history: key -> time of its latest record_alert_sent
    sent_count,         \* history: day -> number of record_alert_sent calls
    sent_alert,         \* history: key -> the alert of its latest record_alert_sent
    outcome,            \* history: the most recent completed send_alert call
    alerts_config,      \* config.alerts: the thresholds of AlertConfig
    production_data,    \* the fetched batch: a list of RTMSProductionData
    hierarchy,          \* the tree returned by get_enhanced_hierarchy_data
    hierarchy_data,     \* the tree returned by FabricPulseRTMS.get_hierarchy_data
    analysis_result,    \* the dict returned by analyze_production_efficiency
    efficiency_analysis, \* the dict returned by process_efficiency_analysis
    is_monitoring,      \* FabricPulseRTMSEngine.is_monitoring
    loop_pc,            \* the position of the monitoring_loop thread
    next_run,           \* schedule: the time the job is next due
    wake_at,            \* the time the loop's time.sleep(60) ends
    cycle,              \* the position of automated_analysis_and_alerts
    monitor_log,        \* history: what the cycles of the loop have done
    report_results,     \* test_mode -> result of generate_and_send_reports
    build_log,          \* history: per hierarchy builder, what its last call was
    fetch_log,          \* history: the last connect_and_fetch_data call
    is_running,         \* ProductionReadyWhatsAppService.is_running
    scheduler_thread,   \* ProductionReadyWhatsAppService.scheduler_thread
    hourly_threads,     \* the threads started by start_hourly_scheduler
    hourly_jobs,        \* schedule.jobs: the registered hourly jobs
    hourly_log,         \* history: the start and stop calls of the scheduler
    last_report_time,   \* ProductionReadyWhatsAppService.last_report_time
    request_counts,     \* request_counts: client IP -> times of its admitted calls
    api_time,           \* time.time() of the API process, in seconds
    request_log         \* history: the check_rate_limit calls, oldest first

ledgerVars == <<now, last_alert_times, daily_alert_count, threads, sent_last,
                sent_count, sent_alert, outcome>>

batchVars == <<alerts_config, production_data, hierarchy, hierarchy_data,
               analysis_result, efficiency_analysis>>

monitorVars == <<is_monitoring, loop_pc, next_run, wake_at, cycle, monitor_log>>

hourlyVars == <<is_running, scheduler_thread, hourly_threads, hourly_jobs,
                hourly_log, last_report_time>>

apiVars == <<request_counts, api_time, request_log>>

reportVars == <<report_results, fetch_log, hourlyVars, apiVars>>

restVars == <<monitorVars, reportVars, build_log>>

vars == <<ledgerVars, batchVars, restVars>>

----------------------------------------------------------------------------
(* Bounds *)

\* the clock runs from Horizon minutes before the midnight that ends day 0
\* to Horizon minutes after it
Horizon == 6

\* the daily cap, scaled down from the 50 of whatsapp_service.py:44 so that
\* the cap is reached inside the clock's horizon
max_alerts_per_day == 3

\* the longest recipients list passed to send_alert
MaxRecipients == 2

\* the longest time, in minutes, the deliveries of one send_alert take
MaxElapsed == 1

\* the number of days the service is followed over when whole days pass
MaxDays == 3

(* Program constants *)

\* timedelta(minutes=5)
min_alert_interval == 5

\* now.date(): minutes in one calendar day
MinutesPerDay == 1440

StartTime == MinutesPerDay - Horizon
MaxNow == MinutesPerDay + Horizon

----------------------------------------------------------------------------
(* Alerts: Python dicts, modelled as functions from field names to strings *)

Alerts ==
    { [unit_id |-> "U1", line_id |-> "L1", employee |-> "E1", operation_id |-> "O1"],
      [unit_id |-> "U1", line_id |-> "L1", employee |-> "E1", operation_id |-> "O2"],
      [unit_id |-> "U1", line_id |-> "L1", operation_id |-> "O1"] }

\* dict.get(field, default)
Get(d, field, default) == IF field \in DOMAIN d THEN d[field] ELSE default

\* f"{unit_id}_{line_id}_{employee, or operation_id when absent}"
alert_key(alert) ==
    Get(alert, "unit_id", "") \o "_" \o Get(alert, "line_id", "") \o "_"
        \o Get(alert, "employee", Get(alert, "operation_id", ""))

AlertKeys == { alert_key(a) : a \in Alerts }

\* now.date()
Today(t) == t \div MinutesPerDay

\* counts.get(day, 0), for reading a day's counter in a property
CountOf(counts, day) == IF day \in DOMAIN counts THEN counts[day] ELSE 0

----------------------------------------------------------------------------
(* EnhancedWhatsAppService.can_send_alert *)

CountsAfterCheck_carried(counts, t) ==
    IF Today(t) \notin DOMAIN counts
    THEN (Today(t) :> CountOf(counts, Today(t) - 1))
    ELSE counts

\* lines 122-123: the dict is replaced by {today: 0} when today has no entry
CountsAfterCheck(counts, t) ==
    IF Today(t) \notin DOMAIN counts THEN (Today(t) :> 0) ELSE counts

can_send_alert_no_interval(key, t, counts, last) ==
    CountsAfterCheck(counts, t)[Today(t)] < max_alerts_per_day

can_send_alert_no_cap(key, t, counts, last) ==
    ~ (key \in DOMAIN last /\ t - last[key] < min_alert_interval)

\* the value returned by can_send_alert(alert_key) called at time t
can_send_alert(key, t, counts, last) ==
    IF CountsAfterCheck(counts, t)[Today(t)] >= max_alerts_per_day
    THEN FALSE
    ELSE IF key \in DOMAIN last /\ t - last[key] < min_alert_interval
         THEN FALSE
         ELSE TRUE

(* EnhancedWhatsAppService.record_alert_sent *)

\* line 143: last_alert_times[alert_key] = now
RecordTimes(last, key, t) == (key :> t) @@ last

\* lines 144-147: today's counter is incremented, or created at 1
RecordCount(counts, t) ==
    IF Today(t) \in DOMAIN counts
    THEN [counts EXCEPT ![Today(t)] = @ + 1]
    ELSE (Today(t) :> 1) @@ counts

ShouldRecord_always(success_count) == TRUE

\* line 75: the send is recorded only when at least one recipient succeeded
ShouldRecord(success_count) == success_count > 0

----------------------------------------------------------------------------
(* Production rows (RTMSProductionData) and batches *)

\* the longest batch aggregated over several places of the factory
MaxRows == 3

\* the largest ProdnPcs of the two-row batches that sweep the efficiencies
MaxPieces == 26

BasePlace ==
    [UnitCode |-> "U1", FloorName |-> "F1", LineName |-> "L1", StyleNo |-> "S1",
     PartName |-> "PT1", NewOperSeq |-> "O1", DeviceID |-> "D1", EmpCode |-> "E1",
     EmpName |-> "N1"]

\* the same leaf; a second employee on the same device; another unit and
\* line with the same operation; another operation and device on the same line
Places ==
    { BasePlace,
      [BasePlace EXCEPT !.EmpCode = "E2", !.EmpName = "N2"],
      [BasePlace EXCEPT !.UnitCode = "U2", !.LineName = "L2"],
      [BasePlace EXCEPT !.NewOperSeq = "O2", !.DeviceID = "D2"] }

\* <<ProdnPcs, Eff100>>
Pieces == { <<100, 100>>, <<30, 50>>, <<5, 0>> }

SweepPieces == (0..MaxPieces) \X {0, 20, 25}

MakeRow(place, pcs) == [ProdnPcs |-> pcs[1], Eff100 |-> pcs[2]] @@ place

Rows == { MakeRow(pl, pcs) : pl \in Places, pcs \in Pieces }

PlaceBatches == UNION { [1..n -> Rows] : n \in 0..MaxRows }

SweepBatches ==
    { << MakeRow(BasePlace, a),
         MakeRow([BasePlace EXCEPT !.EmpCode = "E2", !.EmpName = "N2"], b) >> :
        a \in SweepPieces, b \in SweepPieces }

----------------------------------------------------------------------------
(* Efficiencies: exact rationals <<n, d>> with d > 0 *)

Zero == <<0, 1>>

\* a / b * 100; a zero denominator stands for the ZeroDivisionError raised
Percent(a, b) == <<a * 100, b>>

ZeroDivisionError(x) == x[2] = 0

\* the rounded efficiency of a computation that raised
Raised == 0 - 1

GuardedPercent_unguarded(produced, target) == Percent(produced, target)

\* (produced / target * 100) if target > 0 else 0
GuardedPercent(produced, target) ==
    IF target > 0 THEN Percent(produced, target) ELSE Zero

\* RTMSProductionData.calculate_efficiency
calculate_efficiency(data) == GuardedPercent(data.ProdnPcs, data.Eff100)

\* x >= k and x < k for a rational x and an integer k
AtLeast(x, k) == x[1] >= k * x[2]
Below(x, k) == x[1] < k * x[2]

\* x <= y for rationals
RatLeq(x, y) == x[1] * y[2] <= y[1] * x[2]

\* round(x, 2) in hundredths of a percent, ties to even
Round2(x) ==
    IF ZeroDivisionError(x) THEN Raised
    ELSE LET n == x[1] * 100
             q == n \div x[2]
             r == n % x[2]
         IN  IF 2 * r > x[2] THEN q + 1
             ELSE IF 2 * r < x[2] THEN q
             ELSE IF q % 2 = 0 THEN q ELSE q + 1

\* a literal percentage in hundredths of a percent
Centi(k) == k * 100

ExcellentThreshold == 95
GoodThreshold == 85
CriticalThreshold == 70
TopPerformerThreshold == 100

Bands == {"excellent", "good", "needs_improvement", "critical"}

\* the order of the bands, lowest first
Rank(band) ==
    CASE band = "critical" -> 0
      [] band = "needs_improvement" -> 1
      [] band = "good" -> 2
      [] band = "excellent" -> 3

----------------------------------------------------------------------------
(* FabricPulseRTMSEngine.get_enhanced_hierarchy_data *)

\* the node keys of a row, unit first, and the key of its employee leaf
NodePath(data) ==
    << data.UnitCode, data.FloorName, data.LineName, data.StyleNo,
       data.PartName, data.NewOperSeq, data.DeviceID >>

LeafPath(data) == Append(NodePath(data), data.EmpCode)

\* lines 544-612: the seven levels reached through setdefault
LevelsOf(data) == { SubSeq(NodePath(data), 1, k) : k \in 1..7 }

UpdatedLevels_no_unit(data) == { SubSeq(NodePath(data), 1, k) : k \in 2..7 }

\* line 636: for level in [device, operation, part, style, line, floor, unit]
UpdatedLevels(data) == { SubSeq(NodePath(data), 1, k) : k \in 1..7 }

\* the dict passed to setdefault for a level that does not exist yet
NewNode ==
    [total_production |-> 0, total_target |-> 0, efficiency |-> Zero,
     employee_count |-> 0, underperformer_count |-> 0]

\* the leaf's performance_category, from the unrounded efficiency
LeafCategory(eff) ==
    IF AtLeast(eff, ExcellentThreshold) THEN "excellent"
    ELSE IF AtLeast(eff, GoodThreshold) THEN "good"
    ELSE IF AtLeast(eff, CriticalThreshold) THEN "needs_improvement"
    ELSE "critical"

\* lines 615-633: the employee dict written at device['employees'][EmpCode]
EmployeeLeaf(data) ==
    LET actual_efficiency == calculate_efficiency(data)
    IN  [code |-> data.EmpCode, production |-> data.ProdnPcs,
         target |-> data.Eff100, efficiency |-> Round2(actual_efficiency),
         is_underperformer |-> Below(actual_efficiency, GoodThreshold),
         performance_category |-> LeafCategory(actual_efficiency)]

UpdateLevel_flagged_only(level, data) ==
    LET tp == level.total_production + data.ProdnPcs
        tt == level.total_target + data.Eff100
        flagged == Below(calculate_efficiency(data), GoodThreshold)
    IN  [total_production |-> tp,
         total_target |-> tt,
         efficiency |-> GuardedPercent(tp, tt),
         employee_count |->
             IF flagged THEN level.employee_count + 1 ELSE level.employee_count,
         underperformer_count |->
             IF flagged THEN level.underperformer_count + 1
             ELSE level.underperformer_count]

\* lines 636-642: one level's running totals after a row
UpdateLevel(level, data) ==
    LET tp == level.total_production + data.ProdnPcs
        tt == level.total_target + data.Eff100
    IN  [total_production |-> tp,
         total_target |-> tt,
         efficiency |-> GuardedPercent(tp, tt),
         employee_count |-> level.employee_count + 1,
         underperformer_count |->
             IF Below(calculate_efficiency(data), GoodThreshold)
             THEN level.underperformer_count + 1
             ELSE level.underperformer_count]

SetLeaf_keep_first(employees, data) ==
    employees @@ (LeafPath(data) :> EmployeeLeaf(data))

\* line 616: device['employees'][data.EmpCode] = {...}
SetLeaf(employees, data) ==
    (LeafPath(data) :> EmployeeLeaf(data)) @@ employees

\* the body of the loop over production_data: the levels are created by
\* setdefault, the leaf is assigned and every level is updated
AddRow(h, data) ==
    LET created == [p \in DOMAIN h.nodes \cup LevelsOf(data) |->
                        IF p \in DOMAIN h.nodes THEN h.nodes[p] ELSE NewNode]
    IN  [nodes |-> [p \in DOMAIN created |->
                        IF p \in UpdatedLevels(data)
                        THEN UpdateLevel(created[p], data)
                        ELSE created[p]],
         employees |-> SetLeaf(h.employees, data)]

EmptyHierarchy == [nodes |-> << >>, employees |-> << >>]

RECURSIVE HierarchyOfFirst(_, _)
HierarchyOfFirst(rows, n) ==
    IF n = 0 THEN EmptyHierarchy
    ELSE AddRow(HierarchyOfFirst(rows, n - 1), rows[n])

get_enhanced_hierarchy_data(rows) == HierarchyOfFirst(rows, Len(rows))

----------------------------------------------------------------------------
(* FabricPulseRTMS.get_hierarchy_data (backend/backend/fabric_pulse_ai_main.py) *)

\* the dict passed to setdefault for a level that does not exist yet
NewBasicNode == [total_production |-> 0, total_target |-> 0, efficiency |-> Zero]

\* lines 316-325: the employee dict written at device['employees'][EmpCode]
BasicLeaf(data) ==
    LET actual_efficiency == GuardedPercent(data.ProdnPcs, data.Eff100)
    IN  [code |-> data.EmpCode, production |-> data.ProdnPcs,
         target |-> data.Eff100, efficiency |-> Round2(actual_efficiency),
         is_underperformer |-> Below(actual_efficiency, GoodThreshold)]

\* lines 328-354: the three assignments made to each of the seven levels
UpdateBasicLevel(level, data) ==
    LET tp == level.total_production + data.ProdnPcs
        tt == level.total_target + data.Eff100
    IN  [total_production |-> tp, total_target |-> tt,
         efficiency |-> GuardedPercent(tp, tt)]

\* the body of the loop over production_data
BasicAddRow(h, data) ==
    LET created == [p \in DOMAIN h.nodes \cup LevelsOf(data) |->
                        IF p \in DOMAIN h.nodes THEN h.nodes[p] ELSE NewBasicNode]
    IN  [nodes |-> [p \in DOMAIN created |->
                        IF p \in LevelsOf(data)
                        THEN UpdateBasicLevel(created[p], data)
                        ELSE created[p]],
         employees |-> (LeafPath(data) :> BasicLeaf(data)) @@ h.employees]

RECURSIVE BasicHierarchyOfFirst(_, _)
BasicHierarchyOfFirst(rows, n) ==
    IF n = 0 THEN EmptyHierarchy
    ELSE BasicAddRow(BasicHierarchyOfFirst(rows, n - 1), rows[n])

get_hierarchy_data(rows) == BasicHierarchyOfFirst(rows, Len(rows))

----------------------------------------------------------------------------
(* EnhancedLlamaAIAnalyzer.analyze_production_efficiency *)

\* lines 174-190: the dict appended to efficiency_data for row i
EfficiencyEntry(rows, i) ==
    [row |-> i, emp_name |-> rows[i].EmpName, emp_code |-> rows[i].EmpCode,
     line_name |-> rows[i].LineName,
     unit_code |-> rows[i].UnitCode, new_oper_seq |-> rows[i].NewOperSeq,
     efficiency |-> Round2(calculate_efficiency(rows[i])),
     production |-> rows[i].ProdnPcs, target |-> rows[i].Eff100]

IsUnderperformer_inclusive(emp) == emp.efficiency <= Centi(GoodThreshold)

\* line 233: emp["efficiency"] < 85.0
IsUnderperformer(emp) == emp.efficiency < Centi(GoodThreshold)

\* lines 234-238: the entry appended for a flagged employee
UnderperformerEntry(emp) ==
    [performance_gap |-> Centi(GoodThreshold) - emp.efficiency,
     alert_priority |->
         IF emp.efficiency < Centi(CriticalThreshold) THEN "HIGH" ELSE "MEDIUM"]
    @@ emp

identify_underperformers(efficiency_data) ==
    LET flagged == SelectSeq(efficiency_data, IsUnderperformer)
    IN  [i \in 1..Len(flagged) |-> UnderperformerEntry(flagged[i])]

\* lines 304-312: the list an employee is appended to
CategoryOf(eff) ==
    IF eff >= Centi(ExcellentThreshold) THEN "excellent"
    ELSE IF eff >= Centi(GoodThreshold) THEN "good"
    ELSE IF eff >= Centi(CriticalThreshold) THEN "needs_improvement"
    ELSE "critical"

categorize_performance(efficiency_data) ==
    [b \in Bands |->
        SelectSeq(efficiency_data, LAMBDA emp : CategoryOf(emp.efficiency) = b)]

RECURSIVE SumOver(_, _)
\* sum(f[i] for i in S)
SumOver(f, S) ==
    IF S = {} THEN 0
    ELSE LET i == CHOOSE i \in S : TRUE IN f[i] + SumOver(f, S \ {i})

NoDataResult_zero ==
    [status |-> "success", overall_efficiency |-> 0, underperformers |-> << >>]

\* lines 158-162 (and fabric_pulse_ai_main.py:608): the dict returned for an
\* empty batch; it has no efficiency and no underperformers
NoDataResult == [status |-> "no_data"]

analyze_production_efficiency(rows) ==
    IF rows = << >>
    THEN NoDataResult
    ELSE LET efficiency_data == [i \in 1..Len(rows) |-> EfficiencyEntry(rows, i)]
             total_production ==
                 SumOver([i \in 1..Len(rows) |-> rows[i].ProdnPcs], 1..Len(rows))
             total_target ==
                 SumOver([i \in 1..Len(rows) |-> rows[i].Eff100], 1..Len(rows))
             underperformers == identify_underperformers(efficiency_data)
         IN  [status |-> "success",
              overall_efficiency |->
                  Round2(GuardedPercent(total_production, total_target)),
              total_production |-> total_production,
              total_target |-> total_target,
              efficiency_data |-> efficiency_data,
              underperformers |-> underperformers,
              performance_categories |-> categorize_performance(efficiency_data),
              whatsapp_alerts_needed |-> Len(underperformers) > 0,
              records_analyzed |-> Len(rows)]

----------------------------------------------------------------------------
(* EnhancedRTMSEngine.process_efficiency_analysis and should_send_whatsapp *)

\* _get_efficiency_status(efficiency), reading config.alerts
get_efficiency_status(efficiency, cfg) ==
    IF AtLeast(efficiency, TopPerformerThreshold) THEN "excellent"
    ELSE IF AtLeast(efficiency, cfg.efficiency_threshold) THEN "good"
    ELSE IF AtLeast(efficiency, cfg.critical_threshold) THEN "needs_improvement"
    ELSE "critical"

\* lines 617-631: the operator dict of row i
Operator(rows, i, cfg) ==
    [row |-> i, emp_code |-> rows[i].EmpCode, line_name |-> rows[i].LineName,
     new_oper_seq |-> rows[i].NewOperSeq,
     efficiency |-> Round2(calculate_efficiency(rows[i])),
     status |-> get_efficiency_status(calculate_efficiency(rows[i]), cfg)]

RECURSIVE MaxOf(_)
MaxOf(S) ==
    LET x == CHOOSE x \in S : TRUE
    IN  IF S = {x} THEN x
        ELSE LET m == MaxOf(S \ {x}) IN IF x > m THEN x ELSE m

should_send_whatsapp_inclusive(emp_data, line_performers) ==
    IF line_performers = << >> THEN FALSE
    ELSE LET same_operation ==
                 SelectSeq(line_performers,
                           LAMBDA p : /\ p.line_name = emp_data.line_name
                                      /\ p.new_oper_seq = emp_data.new_oper_seq)
         IN  IF same_operation = << >> THEN FALSE
             ELSE LET top_performer_eff ==
                          MaxOf({ same_operation[j].efficiency :
                                      j \in 1..Len(same_operation) })
                  IN  emp_data.efficiency * 100 <= top_performer_eff * 85

\* True when emp is below 0.85 times the best efficiency among the
\* line_performers of its line and operation
should_send_whatsapp(emp_data, line_performers) ==
    IF line_performers = << >> THEN FALSE
    ELSE LET same_operation ==
                 SelectSeq(line_performers,
                           LAMBDA p : /\ p.line_name = emp_data.line_name
                                      /\ p.new_oper_seq = emp_data.new_oper_seq)
         IN  IF same_operation = << >> THEN FALSE
             ELSE LET top_performer_eff ==
                          MaxOf({ same_operation[j].efficiency :
                                      j \in 1..Len(same_operation) })
                  IN  emp_data.efficiency * 100 < top_performer_eff * 85

\* line 635: the operators list holds the rows up to and including row i
\* when should_send_whatsapp is called for row i
PerformersSeenAt(operators, i) == SubSeq(operators, 1, i)

process_efficiency_analysis(rows, cfg) ==
    IF rows = << >>
    THEN NoDataResult
    ELSE LET operators == [i \in 1..Len(rows) |-> Operator(rows, i, cfg)]
             flagged(o) ==
                 should_send_whatsapp(o, PerformersSeenAt(operators, o.row))
         IN  [status |-> "success",
              operators |-> operators,
              underperformers |-> SelectSeq(operators, flagged)]

----------------------------------------------------------------------------
(* The callers of send_alert *)

Threads == {"monitor", "manual"}

Idle == [pc |-> "idle"]

NoOutcome ==
    [serial |-> 0, alert |-> << >>, key |-> "", passed |-> FALSE,
     delivered |-> FALSE, attempted |-> FALSE]

InitLedger ==
    /\ now = StartTime
    /\ last_alert_times = << >>
    /\ daily_alert_count = << >>
    /\ sent_last = << >>
    /\ sent_count = << >>
    /\ sent_alert = << >>
    /\ outcome = NoOutcome

NotRun == [status |-> "not_run"]

\* AlertConfig's defaults; EFFICIENCY_THRESHOLD of the environment replaces
\* efficiency_threshold
AlertConfigs ==
    { [efficiency_threshold |-> e, critical_threshold |-> 70] : e \in {85, 90} }

DefaultAlertConfig == [efficiency_threshold |-> 85, critical_threshold |-> 70]

\* no cycle of automated_analysis_and_alerts is running
NoCycle ==
    [pc |-> "idle", idx |-> 0, started_at |-> 0, submitted |-> {},
     fetched |-> "none"]

\* the history of a loop that has run no cycle yet
NoMonitorLog ==
    [overlapped |-> FALSE, result |-> "none", finished_at |-> 0,
     window_end |-> 0, window_starts |-> 0, cycles |-> 0,
     submitted |-> {}, flagged |-> 0, fetched |-> "none", stopped |-> FALSE]

\* neither hierarchy builder has been called
NoBuilds == [enhanced |-> "none", basic |-> "none"]

\* generate_and_send_reports has been called in neither mode
NoReports == [test_mode \in BOOLEAN |-> [status |-> "not_run"]]

\* schedule.jobs after schedule.clear(): no job is registered, none is due
NoJobs == [registered |-> {}, due |-> {}]

\* last_report_time = None
NoReportTime == 0 - 1

\* the report service and the API as constructed
InitServices ==
    /\ fetch_log = [status |-> "not_run"]
    /\ is_running = FALSE
    /\ scheduler_thread = 0
    /\ hourly_threads = << >>
    /\ hourly_jobs = NoJobs
    /\ hourly_log = [last_call |-> "none", ignored |-> FALSE]
    /\ last_report_time = NoReportTime
    /\ request_counts = << >>
    /\ api_time = 0
    /\ request_log = << >>

\* the programs around the service that are not running
InitRest ==
    /\ is_monitoring = FALSE
    /\ loop_pc = "off"
    /\ next_run = 0
    /\ wake_at = 0
    /\ cycle = NoCycle
    /\ monitor_log = NoMonitorLog
    /\ report_results = NoReports
    /\ InitServices
    /\ build_log = NoBuilds

InitResults ==
    /\ hierarchy = NotRun
    /\ hierarchy_data = NotRun
    /\ analysis_result = NotRun
    /\ efficiency_analysis = NotRun
    /\ InitRest

Init ==
    /\ InitLedger
    /\ threads = [t \in Threads |-> Idle]
    /\ alerts_config = DefaultAlertConfig
    /\ production_data = << >>
    /\ InitResults

\* time passes; a caller inside send_alert leaves it within MaxElapsed minutes.
\* The monitoring loop is not delayed: its thread registers the job and tests
\* is_monitoring at once, its sleep returns on time, and inside a cycle only
\* the fetch (the database connection and query) takes minutes
Tick ==
    /\ now < MaxNow
    /\ \A t \in Threads :
          threads[t].pc = "sending" => now - threads[t].checked_at < MaxElapsed
    /\ loop_pc \notin {"register", "test"}
    /\ loop_pc = "sleep" => now < wake_at
    /\ cycle.pc \in {"idle", "fetch"}
    /\ now' = now + 1
    /\ UNCHANGED <<last_alert_times, daily_alert_count, threads, sent_last,
                   sent_count, sent_alert, outcome>>
    /\ UNCHANGED <<batchVars, restVars>>

\* the history record of one completed send_alert call: its alert and key,
\* whether can_send_alert returned True and whether a recipient was reached
Outcome(alert, passed, delivered, messages) ==
    [serial |-> 1 - outcome.serial, alert |-> alert, key |-> alert_key(alert),
     passed |-> passed, delivered |-> delivered, attempted |-> messages > 0]

MessagesSent_always(passed, nrecipients) == nrecipients

\* lines 52-71: the number of send_message calls; the loop over the
\* recipients is reached only when can_send_alert returned True
MessagesSent(passed, nrecipients) == IF passed THEN nrecipients ELSE 0

\* the history of record_alert_sent(alert_key) called at time t for an alert
Recorded(alert, t) ==
    /\ sent_last' = (alert_key(alert) :> t) @@ sent_last
    /\ sent_count' = (Today(t) :> CountOf(sent_count, Today(t)) + 1) @@ sent_count
    /\ sent_alert' = (alert_key(alert) :> alert) @@ sent_alert

\* send_alert(alert, recipients) run to completion by one caller:
\* nrecipients = len(recipients), success_count of them are delivered, and
\* elapsed minutes pass between can_send_alert and record_alert_sent
send_alert(alert, nrecipients, success_count, elapsed) ==
    LET key == alert_key(alert)
        passed == can_send_alert(key, now, daily_alert_count, last_alert_times)
        checked == CountsAfterCheck(daily_alert_count, now)
    IN  /\ \A t \in Threads : threads[t].pc = "idle"
        /\ IF ~ passed
           THEN /\ daily_alert_count' = checked
                /\ outcome' = Outcome(alert, FALSE, FALSE,
                                       MessagesSent(passed, nrecipients))
                /\ UNCHANGED <<now, last_alert_times, sent_last, sent_count,
                               sent_alert>>
           ELSE /\ elapsed = 0 \/ now + elapsed <= MaxNow
                /\ now' = now + elapsed
                /\ outcome' = Outcome(alert, TRUE, success_count > 0,
                                       MessagesSent(passed, nrecipients))
                /\ IF ShouldRecord(success_count)
                   THEN /\ last_alert_times' = RecordTimes(last_alert_times, key, now')
                        /\ daily_alert_count' = RecordCount(checked, now')
                        /\ Recorded(alert, now')
                   ELSE /\ daily_alert_count' = checked
                        /\ UNCHANGED <<last_alert_times, sent_last, sent_count,
                                       sent_alert>>
        /\ UNCHANGED threads

\* a caller outside the monitoring loop sends an alert
SendAlert ==
    \E alert \in Alerts, n \in 0..MaxRecipients, elapsed \in 0..MaxElapsed :
        \E s \in 0..n :
            /\ send_alert(alert, n, s, elapsed)
            /\ UNCHANGED <<batchVars, restVars>>

Next == Tick \/ SendAlert

Spec == Init /\ [][Next]_vars

----------------------------------------------------------------------------
(* The service kept running over several days: the ledger lives as long as *)
(* the process, and between two calls of send_alert a whole day may pass.  *)

\* a day passes without a call
NextDay ==
    /\ now < StartTime + MaxDays * MinutesPerDay
    /\ now' = now + MinutesPerDay
    /\ UNCHANGED <<last_alert_times, daily_alert_count, threads, sent_last,
                   sent_count, sent_alert, outcome>>
    /\ UNCHANGED <<batchVars, restVars>>

\* a caller sends an alert to one recipient, who is reached or not, with no
\* measurable time between the rate check and the record
SendAlertOnce ==
    \E alert \in Alerts, success_count \in 0..1 :
        /\ send_alert(alert, 1, success_count, 0)
        /\ UNCHANGED <<batchVars, restVars>>

NextDays == SendAlertOnce \/ NextDay

SpecDays == Init /\ [][NextDays]_vars

----------------------------------------------------------------------------
(* send_alert called by two callers at once: each caller runs             *)
(* can_send_alert, then delivers, then runs record_alert_sent; the callers *)
(* are interleaved between these steps (send_message blocks on the        *)
(* network between them).                                                  *)

\* lines 50-55: the key is built and can_send_alert is consulted
CheckStep(t, alert) ==
    LET key == alert_key(alert)
        passed == can_send_alert(key, now, daily_alert_count, last_alert_times)
    IN  /\ threads[t].pc = "idle"
        /\ daily_alert_count' = CountsAfterCheck(daily_alert_count, now)
        /\ IF passed
           THEN /\ threads' = [threads EXCEPT ![t] =
                        [pc |-> "sending", alert |-> alert, key |-> key,
                         checked_at |-> now]]
                /\ UNCHANGED outcome
           ELSE /\ outcome' = Outcome(alert, FALSE, FALSE,
                                       MessagesSent(passed, MaxRecipients))
                /\ UNCHANGED threads
        /\ UNCHANGED <<now, last_alert_times, sent_last, sent_count, sent_alert>>
        /\ UNCHANGED <<batchVars, restVars>>

\* lines 57-79: the deliveries are over; the send is recorded when one succeeded
FinishStep(t, nrecipients, success_count) ==
    LET key == threads[t].key
    IN  /\ threads[t].pc = "sending"
        /\ threads' = [threads EXCEPT ![t] = Idle]
        /\ outcome' = Outcome(threads[t].alert, TRUE, success_count > 0,
                               MessagesSent(TRUE, nrecipients))
        /\ IF ShouldRecord(success_count)
           THEN /\ last_alert_times' = RecordTimes(last_alert_times, key, now)
                /\ daily_alert_count' = RecordCount(daily_alert_count, now)
                /\ Recorded(threads[t].alert, now)
           ELSE UNCHANGED <<last_alert_times, daily_alert_count, sent_last,
                            sent_count, sent_alert>>
        /\ UNCHANGED <<now, batchVars, restVars>>

\* the alerts of the interleaved callers: one alert for every key
RaceAlerts == { alert \in Alerts : alert.operation_id = "O1" }

Check == \E t \in Threads, alert \in RaceAlerts : CheckStep(t, alert)

Finish ==
    \E t \in Threads, n \in 0..MaxRecipients :
        \E s \in 0..n : FinishStep(t, n, s)

NextRace == Tick \/ Check \/ Finish

SpecRace == Init /\ [][NextRace]_vars

----------------------------------------------------------------------------
(* One fetched batch, analysed by the two programs *)

\* a batch of rows from several places of the factory
InitBatch ==
    /\ InitLedger
    /\ threads = [t \in Threads |-> Idle]
    /\ alerts_config = DefaultAlertConfig
    /\ production_data \in PlaceBatches
    /\ InitResults

\* a batch of two employees of one device whose efficiencies sweep the bands
InitSweep ==
    /\ InitLedger
    /\ threads = [t \in Threads |-> Idle]
    /\ alerts_config \in AlertConfigs
    /\ production_data \in SweepBatches
    /\ InitResults

\* GET /api/rtms/analyze (main.py): the batch is analysed and aggregated
AnalyzeProduction ==
    /\ production_data # << >>
    /\ analysis_result' = analyze_production_efficiency(production_data)
    /\ hierarchy' = get_enhanced_hierarchy_data(production_data)
    /\ UNCHANGED <<ledgerVars, restVars, alerts_config, production_data, hierarchy_data,
                   efficiency_analysis>>

\* GET /api/rtms/analyze on an empty fetch: the no_data response
AnalyzeNoData ==
    /\ production_data = << >>
    /\ analysis_result' = NoDataResult
    /\ UNCHANGED <<ledgerVars, restVars, alerts_config, production_data, hierarchy,
                   hierarchy_data, efficiency_analysis>>

\* process_efficiency_analysis (fabric_pulse_ai_main.py) on the batch
ProcessEfficiency ==
    /\ efficiency_analysis' = process_efficiency_analysis(production_data, alerts_config)
    /\ UNCHANGED <<ledgerVars, restVars, alerts_config, production_data, hierarchy,
                   hierarchy_data, analysis_result>>

\* FabricPulseRTMS.get_hierarchy_data on the batch
GetHierarchyData ==
    /\ hierarchy_data' = get_hierarchy_data(production_data)
    /\ UNCHANGED <<ledgerVars, restVars, alerts_config, production_data, hierarchy,
                   analysis_result, efficiency_analysis>>

NextBatch == AnalyzeProduction \/ AnalyzeNoData \/ GetHierarchyData

SpecBatch == InitBatch /\ [][NextBatch]_vars

NextSweep == AnalyzeProduction \/ ProcessEfficiency

\* GET /api/rtms/hierarchy/{level} (main.py): the tree is built from whatever
\* the fetch returned, an empty batch included
GetHierarchyLevel ==
    /\ hierarchy' = get_enhanced_hierarchy_data(production_data)
    /\ UNCHANGED <<ledgerVars, restVars, alerts_config, production_data,
                   hierarchy_data, analysis_result, efficiency_analysis>>

\* the endpoints of the two programs on one fetched batch
NextEndpoints ==
    \/ AnalyzeProduction
    \/ AnalyzeNoData
    \/ GetHierarchyLevel
    \/ ProcessEfficiency

SpecEndpoints == InitBatch /\ [][NextEndpoints]_vars

----------------------------------------------------------------------------
(* The hierarchy builders called again and again: each call fetches a      *)
(* batch and builds a tree, starting from the dict its first line creates  *)

\* the batches fetched: no row, one row, or two rows, on one employee leaf
\* or on two leaves of one device
RebuildRows ==
    { MakeRow(pl, pcs) :
        pl \in { BasePlace, [BasePlace EXCEPT !.EmpCode = "E2", !.EmpName = "N2"] },
        pcs \in { <<100, 100>>, <<30, 50>> } }

RebuildBatches == UNION { [1..n -> RebuildRows] : n \in 0..2 }

InitialTree_kept(previous) ==
    IF "nodes" \in DOMAIN previous THEN previous ELSE EmptyHierarchy

\* main.py:538 and fabric_pulse_ai_main.py:252: hierarchy = {}, a local
\* variable; the tree returned by an earlier call is not read
InitialTree(previous) == EmptyHierarchy

RECURSIVE AggregateFrom(_, _, _)
\* the loop of get_enhanced_hierarchy_data over the first n rows, from a
\* given starting dict
AggregateFrom(start, rows, n) ==
    IF n = 0 THEN start
    ELSE AddRow(AggregateFrom(start, rows, n - 1), rows[n])

RECURSIVE BasicAggregateFrom(_, _, _)
\* the loop of get_hierarchy_data over the first n rows
BasicAggregateFrom(start, rows, n) ==
    IF n = 0 THEN start
    ELSE BasicAddRow(BasicAggregateFrom(start, rows, n - 1), rows[n])

\* what a call is to the builder's previous call: the first call, a call
\* that returns the tree the previous call returned, or one that replaces it
CallKind(previous, tree) ==
    IF "nodes" \notin DOMAIN previous THEN "first"
    ELSE IF previous = tree THEN "repeated"
    ELSE "replaced"

InitRebuild ==
    /\ InitLedger
    /\ threads = [t \in Threads |-> Idle]
    /\ alerts_config = DefaultAlertConfig
    /\ production_data = << >>
    /\ InitResults

\* GET /api/rtms/hierarchy/{level}: a fetch, then get_enhanced_hierarchy_data
RebuildEnhanced ==
    \E batch \in RebuildBatches :
        LET tree == AggregateFrom(InitialTree(hierarchy), batch, Len(batch))
        IN  /\ production_data' = batch
            /\ hierarchy' = tree
            /\ build_log' = [build_log EXCEPT
                                !.enhanced = CallKind(hierarchy, tree)]
            /\ UNCHANGED <<ledgerVars, monitorVars, reportVars, alerts_config,
                           hierarchy_data, analysis_result, efficiency_analysis>>

\* the hierarchy endpoints of backend/fabric_pulse_ai_main.py: a fetch, then
\* get_hierarchy_data
RebuildBasic ==
    \E batch \in RebuildBatches :
        LET tree == BasicAggregateFrom(InitialTree(hierarchy_data), batch, Len(batch))
        IN  /\ production_data' = batch
            /\ hierarchy_data' = tree
            /\ build_log' = [build_log EXCEPT
                                !.basic = CallKind(hierarchy_data, tree)]
            /\ UNCHANGED <<ledgerVars, monitorVars, reportVars, alerts_config,
                           hierarchy, analysis_result, efficiency_analysis>>

NextRebuild == RebuildEnhanced \/ RebuildBasic

SpecRebuild == InitRebuild /\ [][NextRebuild]_vars

SpecSweep == InitSweep /\ [][NextSweep]_vars

----------------------------------------------------------------------------
(* The hourly report of ProductionReadyWhatsAppService                     *)
(* (src/backend/whatsapp_service.py), triggered by                         *)
(* POST /api/ai/generate_hourly_report?test_mode=...                        *)

\* the largest number of flagged employees one fetch returns
MaxFlagged == 2

\* the FlaggedEmployee records a fetch can return
FlaggedEmployees ==
    { [unit_code |-> "U1", line_name |-> "L1", style_no |-> "S1"],
      [unit_code |-> "U1", line_name |-> "L2", style_no |-> "S2"] }

\* what fetch_flagged_employees returns: the rows with IsRedFlag = 1, or []
\* when the query fails
FlaggedBatches ==
    UNION { [1..n -> FlaggedEmployees] : n \in 0..MaxFlagged }

\* self.test_numbers
test_numbers == << "+919943625493", "+918939990949" >>

\* the line reports keyed by f"{unit_code}_{line_name}", each with its
\* employees grouped by style and their number
group_employees_by_line_and_style(employees) ==
    LET line_key(emp) == emp.unit_code \o "_" \o emp.line_name
        Emps == { employees[i] : i \in 1..Len(employees) }
        OnLine(key) == SelectSeq(employees, LAMBDA e : line_key(e) = key)
    IN  [ key \in { line_key(e) : e \in Emps } |->
            LET members == OnLine(key)
                Styles == { members[i].style_no : i \in 1..Len(members) }
            IN  [ line_name |-> members[1].line_name,
                  unit_code |-> members[1].unit_code,
                  style_groups |->
                      [ style \in Styles |->
                          SelectSeq(members, LAMBDA e : e.style_no = style) ],
                  total_flagged |-> Len(members) ] ]

\* the sends of the recipients loop: send_whatsapp_report is called with
\* three positional arguments (line 544) though it takes four (line 442), so
\* every call raises TypeError, which the loop catches; no send succeeds
successful_sends(recipients) == 0

\* generate_and_send_reports(test_mode), given what the fetch returned and
\* whether writing the report raised; steps lists the steps that ran
generate_and_send_reports(test_mode, flagged_employees, raised) ==
    LET line_reports == group_employees_by_line_and_style(flagged_employees)
        recipients == IF test_mode THEN test_numbers ELSE test_numbers
    IN  IF DOMAIN line_reports = {} /\ ~ test_mode
        THEN [ status |-> "success",
               steps |-> << "fetch", "group" >>,
               fetched |-> flagged_employees,
               files |-> {},
               send_attempts |-> 0,
               flagged_count |-> 0,
               lines_affected |-> 0 ]
        ELSE IF raised
        THEN [ status |-> "error",
               steps |-> << "fetch", "group", "pdf" >>,
               fetched |-> flagged_employees,
               files |-> {},
               send_attempts |-> 0,
               flagged_count |-> 0,
               lines_affected |-> 0 ]
        ELSE [ status |-> "success",
               steps |-> << "fetch", "group", "pdf", "csv", "message", "send" >>,
               fetched |-> flagged_employees,
               files |-> IF flagged_employees = << >>
                         THEN {"pdf"} ELSE {"pdf", "csv"},
               send_attempts |-> Len(recipients),
               report_generated |-> TRUE,
               pdf_file |-> (IF test_mode THEN "test_" ELSE "") \o "hourly_report",
               flagged_employees |-> Len(flagged_employees),
               lines_affected |-> Cardinality(DOMAIN line_reports),
               test_mode |-> test_mode,
               whatsapp_sent_to |-> recipients,
               successful_sends |-> successful_sends(recipients) ]

LastReportTime_always(result, timestamp) == timestamp

\* line 549: self.last_report_time = timestamp, reached only when the report
\* was generated and the recipients loop has ended
LastReportTime(result, timestamp) ==
    IF "report_generated" \in DOMAIN result THEN timestamp ELSE last_report_time

\* one run of generate_and_send_reports(test_mode) at the current time
RunReport(test_mode) ==
    \E flagged_employees \in FlaggedBatches, raised \in BOOLEAN :
        LET result ==
                generate_and_send_reports(test_mode, flagged_employees, raised)
        IN  /\ report_results' = [report_results EXCEPT ![test_mode] = result]
            /\ last_report_time' = LastReportTime(result, now)

\* POST /api/ai/generate_hourly_report
generate_hourly_report ==
    \E test_mode \in BOOLEAN :
        /\ RunReport(test_mode)
        /\ UNCHANGED <<ledgerVars, batchVars, monitorVars, build_log, fetch_log,
                       is_running, scheduler_thread, hourly_threads,
                       hourly_jobs, hourly_log, apiVars>>

NextReports == generate_hourly_report \/ Tick

SpecReports == Init /\ [][NextReports]_vars

----------------------------------------------------------------------------
(* The hourly scheduler of ProductionReadyWhatsAppService: each start that *)
(* finds is_running False registers the hourly job on the module-wide      *)
(* schedule and starts a run_scheduler thread; the thread tests            *)
(* is_running, calls schedule.run_pending() and sleeps 60 seconds.         *)
(* run_pending runs a job that is due in the calling thread and sets the   *)
(* job's next run when the job has returned.                               *)

\* the largest number of run_scheduler threads ever started
MaxStarts == 2

AlreadyRunning_never == FALSE

\* line 581: if self.is_running
AlreadyRunning == is_running

\* start_hourly_scheduler
start_hourly_scheduler ==
    IF AlreadyRunning
    THEN /\ hourly_log' = [last_call |-> "start", ignored |-> TRUE]
         /\ UNCHANGED <<is_running, scheduler_thread, hourly_threads,
                        hourly_jobs>>
    ELSE LET t == Cardinality(DOMAIN hourly_threads) + 1
         IN  /\ t <= MaxStarts
             /\ is_running' = TRUE
             /\ hourly_jobs' =
                    [hourly_jobs EXCEPT !.registered = @ \cup {t}]
             /\ scheduler_thread' = t
             /\ hourly_threads' = (t :> [pc |-> "test", job |-> 0]) @@ hourly_threads
             /\ hourly_log' = [hourly_log EXCEPT !.last_call = "start"]

\* stop_hourly_scheduler
stop_hourly_scheduler ==
    /\ is_running' = FALSE
    /\ hourly_jobs' = NoJobs
    /\ hourly_log' = [hourly_log EXCEPT !.last_call = "stop"]
    /\ UNCHANGED <<scheduler_thread, hourly_threads>>

\* POST /start_hourly_scheduler and POST /stop_hourly_scheduler
StartHourly ==
    /\ start_hourly_scheduler
    /\ UNCHANGED <<ledgerVars, batchVars, monitorVars, build_log, fetch_log,
                   report_results, last_report_time, apiVars>>

StopHourly ==
    /\ stop_hourly_scheduler
    /\ UNCHANGED <<ledgerVars, batchVars, monitorVars, build_log, fetch_log,
                   report_results, last_report_time, apiVars>>

\* the clock reaches :00: every registered job is due
HourStrikes ==
    /\ hourly_jobs.registered # {}
    /\ hourly_jobs.due # hourly_jobs.registered
    /\ hourly_jobs' = [hourly_jobs EXCEPT !.due = hourly_jobs.registered]
    /\ UNCHANGED <<ledgerVars, batchVars, monitorVars, build_log, fetch_log,
                   report_results, is_running, scheduler_thread,
                   hourly_threads, hourly_log, last_report_time, apiVars>>

\* lines 590-592: the while test, then run_pending, which calls a job that
\* is due, and otherwise the sleep
RunScheduler(t) ==
    /\ hourly_threads[t].pc = "test"
    /\ IF ~ is_running
       THEN hourly_threads' = [hourly_threads EXCEPT ![t].pc = "exited"]
       ELSE IF hourly_jobs.due # {}
            THEN \E job \in hourly_jobs.due :
                     hourly_threads' =
                        [hourly_threads EXCEPT ![t] = [pc |-> "job", job |-> job]]
            ELSE hourly_threads' = [hourly_threads EXCEPT ![t].pc = "sleep"]
    /\ UNCHANGED <<ledgerVars, batchVars, monitorVars, build_log, fetch_log,
                   report_results, is_running, scheduler_thread, hourly_jobs,
                   hourly_log, last_report_time, apiVars>>

\* _run_hourly_report returns: the job's next run is set and the thread
\* goes to sleep
HourlyJobDone(t) ==
    /\ hourly_threads[t].pc = "job"
    /\ RunReport(FALSE)
    /\ hourly_jobs' = [hourly_jobs EXCEPT !.due = @ \ {hourly_threads[t].job}]
    /\ hourly_threads' = [hourly_threads EXCEPT ![t] = [pc |-> "sleep", job |-> 0]]
    /\ UNCHANGED <<ledgerVars, batchVars, monitorVars, build_log, fetch_log,
                   is_running, scheduler_thread, hourly_log, apiVars>>

\* time.sleep(60) returns
HourlyWake(t) ==
    /\ hourly_threads[t].pc = "sleep"
    /\ hourly_threads' = [hourly_threads EXCEPT ![t].pc = "test"]
    /\ UNCHANGED <<ledgerVars, batchVars, monitorVars, build_log, fetch_log,
                   report_results, is_running, scheduler_thread, hourly_jobs,
                   hourly_log, last_report_time, apiVars>>

NextHourly ==
    \/ StartHourly
    \/ StopHourly
    \/ HourStrikes
    \/ \E t \in DOMAIN hourly_threads : RunScheduler(t)
    \/ \E t \in DOMAIN hourly_threads : HourlyJobDone(t)
    \/ \E t \in DOMAIN hourly_threads : HourlyWake(t)

SpecHourly == Init /\ [][NextHourly]_vars

----------------------------------------------------------------------------
(* The monitoring loop of FabricPulseRTMSEngine (main.py): the thread      *)
(* started by start_background_monitoring registers                        *)
(* automated_analysis_and_alerts with schedule and then, while             *)
(* is_monitoring, calls schedule.run_pending() and sleeps for a minute.    *)
(* run_pending runs a due job in the calling thread and sets the job's     *)
(* next run to the interval after the moment the job returned.             *)

\* the clock of the monitoring specification starts this many minutes
\* before MaxNow
MonitorHorizon == 32

\* schedule.every(10).minutes
ScheduleInterval == 10

\* time.sleep(60)
SleepMinutes == 1

MonitorStart == MaxNow - MonitorHorizon

\* what connect_and_fetch_data returns: [] when the connection fails or no
\* row matches; one employee far below target; one far below and one
\* slightly below; two far below; one on target
MonitorBatches ==
    { << >>,
      << MakeRow(BasePlace, <<30, 50>>) >>,
      << MakeRow(BasePlace, <<30, 50>>),
         MakeRow([BasePlace EXCEPT !.EmpCode = "E2", !.EmpName = "N2"], <<16, 20>>) >>,
      << MakeRow(BasePlace, <<30, 50>>),
         MakeRow([BasePlace EXCEPT !.EmpCode = "E2", !.EmpName = "N2"], <<10, 20>>) >>,
      << MakeRow(BasePlace, <<20, 20>>) >> }

\* lines 693-701: the dict passed to send_alert for an underperformer
AlertOf(emp) ==
    [unit_id |-> emp.unit_code, line_id |-> emp.line_name,
     operation_id |-> emp.new_oper_seq, employee |-> emp.emp_name]

\* line 689: if emp.get("alert_priority") in ["HIGH", "CRITICAL"]
SentPriorities == {"HIGH", "CRITICAL"}

LoopWhileJob_detached == "sleep"

\* run_pending calls the job in the loop's own thread: the loop is inside
\* the job until it returns
LoopWhileJob == "job"

CycleAfterRaise_escapes == "crashed"

\* lines 682-683 and 708-709: an exception raised by a step is logged and
\* the job returns
CycleAfterRaise == "idle"

\* Job._schedule_next_run at the moment t the job returned
JobNextRun(t) == t + ScheduleInterval

InitMonitor ==
    /\ now = MonitorStart
    /\ last_alert_times = << >>
    /\ daily_alert_count = << >>
    /\ sent_last = << >>
    /\ sent_count = << >>
    /\ sent_alert = << >>
    /\ outcome = NoOutcome
    /\ threads = [t \in Threads |-> Idle]
    /\ alerts_config = DefaultAlertConfig
    /\ production_data = << >>
    /\ hierarchy = NotRun
    /\ hierarchy_data = NotRun
    /\ analysis_result = NotRun
    /\ efficiency_analysis = NotRun
    /\ is_monitoring = FALSE
    /\ loop_pc = "register"
    /\ next_run = 0
    /\ wake_at = 0
    /\ cycle = NoCycle
    /\ monitor_log = NoMonitorLog
    /\ report_results = NoReports
    /\ InitServices
    /\ build_log = NoBuilds

\* lines 649-651: the job is registered, due one interval from now, and
\* is_monitoring is set
Register ==
    /\ loop_pc = "register"
    /\ next_run' = now + ScheduleInterval
    /\ is_monitoring' = TRUE
    /\ loop_pc' = "test"
    /\ UNCHANGED <<ledgerVars, batchVars, wake_at, cycle, monitor_log, reportVars, build_log>>

\* the job is called: automated_analysis_and_alerts begins
StartCycle ==
    /\ cycle' = [pc |-> "fetch", idx |-> 0, started_at |-> now, submitted |-> {},
                 fetched |-> "none"]
    /\ monitor_log' =
          [monitor_log EXCEPT
              !.overlapped = @ \/ cycle.pc # "idle",
              !.window_starts =
                  IF now < monitor_log.window_end /\ @ < 2 THEN @ + 1 ELSE @,
              !.cycles = IF @ < 2 THEN @ + 1 ELSE @]

\* lines 654-656: the while test, then run_pending, which calls the job when
\* it is due, and otherwise the sleep
RunPending ==
    /\ loop_pc = "test"
    /\ IF ~ is_monitoring
       THEN /\ loop_pc' = "exited"
            /\ UNCHANGED <<wake_at, cycle, monitor_log>>
       ELSE IF now >= next_run
            THEN /\ StartCycle
                 /\ loop_pc' = LoopWhileJob
                 /\ UNCHANGED wake_at
            ELSE /\ loop_pc' = "sleep"
                 /\ wake_at' = now + SleepMinutes
                 /\ UNCHANGED <<cycle, monitor_log>>
    /\ UNCHANGED <<ledgerVars, batchVars, is_monitoring, next_run, reportVars, build_log>>

\* time.sleep(60) returns
Wake ==
    /\ loop_pc = "sleep"
    /\ now >= wake_at
    /\ loop_pc' = "test"
    /\ UNCHANGED <<ledgerVars, batchVars, is_monitoring, next_run, wake_at, cycle,
                   monitor_log, reportVars, build_log>>

\* the job returns with a result: schedule sets its next run, run_pending
\* returns and the loop goes to sleep; fetched tells how the cycle's fetch
\* went ("failed", "empty" or "rows")
EndCycleAfter(fetched, result, submitted, flagged) ==
    LET missed == (now - cycle.started_at) \div ScheduleInterval
    IN  /\ cycle' = NoCycle
        /\ next_run' = JobNextRun(now)
        /\ production_data' = << >>
        /\ analysis_result' = NotRun
        /\ loop_pc' = IF loop_pc = "job" THEN "sleep" ELSE loop_pc
        /\ wake_at' = IF loop_pc = "job" THEN now + SleepMinutes ELSE wake_at
        /\ monitor_log' =
              [monitor_log EXCEPT
                  !.result = result,
                  !.finished_at = now,
                  !.submitted = submitted,
                  !.flagged = flagged,
                  !.fetched = fetched,
                  !.window_end =
                      IF missed >= 1
                      THEN cycle.started_at + (missed + 1) * ScheduleInterval
                      ELSE @,
                  !.window_starts = IF missed >= 1 THEN 0 ELSE @]

EndCycle(result, submitted, flagged) ==
    EndCycleAfter(cycle.fetched, result, submitted, flagged)

\* a step of the job raises
Raise(result, submitted, flagged) ==
    IF CycleAfterRaise = "idle"
    THEN EndCycle(result, submitted, flagged)
    ELSE /\ cycle' = [cycle EXCEPT !.pc = CycleAfterRaise]
         /\ loop_pc' = CycleAfterRaise
         /\ UNCHANGED <<next_run, wake_at, monitor_log, production_data,
                        analysis_result>>

\* lines 669-671: 'if not production_data:' logs a warning and returns
NoProductionData == "no_data"

\* lines 465-466 and 532-534: what connect_and_fetch_data returns when the
\* database was reached, and [] when pyodbc.connect or the query raised
FetchReturn(connected, rows) == IF connected THEN rows ELSE << >>

\* lines 667-671: the fetch; an empty result ends the cycle
Fetch ==
    /\ cycle.pc = "fetch"
    /\ \E connected \in BOOLEAN, batch \in MonitorBatches :
          IF FetchReturn(connected, batch) = << >>
          THEN EndCycleAfter(IF connected THEN "empty" ELSE "failed",
                             NoProductionData, {}, 0)
          ELSE /\ production_data' = FetchReturn(connected, batch)
               /\ cycle' = [cycle EXCEPT !.pc = "analyse", !.fetched = "rows"]
               /\ UNCHANGED <<loop_pc, next_run, wake_at, monitor_log,
                              analysis_result>>
    /\ UNCHANGED <<ledgerVars, alerts_config, hierarchy, hierarchy_data,
                   efficiency_analysis, is_monitoring, reportVars, build_log>>

\* lines 674-678: the analysis, which may raise; the alerts are sent when
\* whatsapp_alerts_needed and the underperformers list is not empty
Analyse ==
    /\ cycle.pc = "analyse"
    /\ \/ Raise("error", {}, 0)
       \/ LET result == analyze_production_efficiency(production_data)
          IN  IF result.whatsapp_alerts_needed /\ result.underperformers # << >>
              THEN /\ analysis_result' = result
                   /\ cycle' = [cycle EXCEPT !.pc = "dispatch", !.idx = 1]
                   /\ UNCHANGED <<loop_pc, next_run, wake_at, monitor_log,
                                  production_data>>
              ELSE EndCycle("completed", {}, 0)
    /\ UNCHANGED <<ledgerVars, alerts_config, hierarchy, hierarchy_data,
                   efficiency_analysis, is_monitoring, reportVars, build_log>>

\* lines 688-706: one turn of the loop over the underperformers, which may
\* raise (the loop is then abandoned); after the last one the job returns
Dispatch ==
    LET underperformers == analysis_result.underperformers
        emp == underperformers[cycle.idx]
        flagged == Len(underperformers)
        sent == emp.alert_priority \in SentPriorities
        submitted == IF sent THEN cycle.submitted \cup {cycle.idx}
                     ELSE cycle.submitted
    IN  /\ cycle.pc = "dispatch"
        /\ \/ /\ Raise("dispatch_error", cycle.submitted, flagged)
              /\ UNCHANGED ledgerVars
           \/ /\ IF sent
                 THEN \E success_count \in 0..1 :
                          send_alert(AlertOf(emp), 1, success_count, 0)
                 ELSE UNCHANGED ledgerVars
              /\ IF cycle.idx < flagged
                 THEN /\ cycle' = [cycle EXCEPT !.idx = @ + 1,
                                                !.submitted = submitted]
                      /\ UNCHANGED <<loop_pc, next_run, wake_at, monitor_log,
                                     production_data, analysis_result>>
                 ELSE EndCycle("completed", submitted, flagged)
        /\ UNCHANGED <<alerts_config, hierarchy, hierarchy_data,
                       efficiency_analysis, is_monitoring, reportVars, build_log>>

\* lines 729-732: stop_monitoring, called once by another thread at any
\* time after start_background_monitoring has returned
StopMonitoring ==
    /\ ~ monitor_log.stopped
    /\ is_monitoring' = FALSE
    /\ monitor_log' = [monitor_log EXCEPT !.stopped = TRUE]
    /\ UNCHANGED <<ledgerVars, batchVars, loop_pc, next_run, wake_at, cycle,
                   reportVars, build_log>>

NextMonitor ==
    \/ Tick
    \/ Register
    \/ RunPending
    \/ Wake
    \/ Fetch
    \/ Analyse
    \/ Dispatch
    \/ StopMonitoring

SpecMonitor == InitMonitor /\ [][NextMonitor]_vars

----------------------------------------------------------------------------
(* connect_and_fetch_data (main.py) and fetch_production_data              *)
(* (fabric_pulse_ai_main.py): the rows of the DataFrame are converted one  *)
(* by one to RTMSProductionData, each inside its own try.                  *)

\* the largest number of rows the query returns
MaxFetched == 2

\* a cell of the DataFrame: a number, NULL (pd.notna is False), or a value
\* that int() rejects
RawCells == { [kind |-> "int", val |-> 30], [kind |-> "null"], [kind |-> "text"] }

RawRows ==
    [place : {BasePlace, [BasePlace EXCEPT !.EmpCode = "E2", !.EmpName = "N2"]},
     ProdnPcs : RawCells,
     Eff100 : { [kind |-> "int", val |-> 50], [kind |-> "text"] }]

DataFrames == UNION { [1..n -> RawRows] : n \in 0..MaxFetched }

\* int(row[f]) raises ValueError
Raises(cell) == cell.kind = "text"

\* int(row[f]) if pd.notna(row[f]) else 0
CoerceInt(cell) == IF cell.kind = "null" THEN 0 ELSE cell.val

\* the constructor call of lines 493-521 raises for this row
RowRaises(row) == Raises(row.ProdnPcs) \/ Raises(row.Eff100)

\* lines 493-521: RTMSProductionData(...) of one row
ConvertRow(row) ==
    MakeRow(row.place, << CoerceInt(row.ProdnPcs), CoerceInt(row.Eff100) >>)

\* lines 490-530: the loop over df.iterrows() after its first n rows; a row
\* that raises is logged and skipped (continue)
RECURSIVE ConvertFrom(_, _)
ConvertFrom(df, n) ==
    IF n = 0 THEN << >>
    ELSE IF RowRaises(df[n]) THEN ConvertFrom(df, n - 1)
    ELSE Append(ConvertFrom(df, n - 1), ConvertRow(df[n]))

\* the number of skipped rows the loop counts: the except branch of lines
\* 528-530 logs a warning and continues, and no counter is kept
SkippedCount(df) == 0

connect_and_fetch_data(connected, df) ==
    FetchReturn(connected, ConvertFrom(df, Len(df)))

\* one call of connect_and_fetch_data
FetchData ==
    \E connected \in BOOLEAN, df \in DataFrames :
        /\ production_data' = connect_and_fetch_data(connected, df)
        /\ fetch_log' =
               [status |-> "fetched", connected |-> connected, df |-> df,
                skipped |-> IF connected THEN SkippedCount(df) ELSE 0]
        /\ UNCHANGED <<ledgerVars, alerts_config, hierarchy, hierarchy_data,
                       analysis_result, efficiency_analysis, monitorVars,
                       report_results, hourlyVars, apiVars, build_log>>

NextFetch == FetchData

SpecFetch == Init /\ [][NextFetch]_vars

----------------------------------------------------------------------------
(* The request rate limit of the API: fabric_pulse_ai_main.py *)

\* line 101: RATE_LIMIT, requests per window (30 in the source)
RATE_LIMIT == 2

\* line 105: the length of the window in seconds (60 in the source)
RateWindow == 2

\* the largest number of check_rate_limit calls of a run
MaxCalls == 5

\* lines 895 and 946: client_ip = "127.0.0.1"
PlaceholderIP == "127.0.0.1"

\* the client addresses check_rate_limit is called with
ClientIPs == {PlaceholderIP, "10.0.0.2"}

\* the seconds that pass before a call reads time.time()
Delays == {0, 1, RateWindow}

\* line 100: request_counts = defaultdict(list)
RequestTimes(ip) ==
    IF ip \in DOMAIN request_counts THEN request_counts[ip] ELSE << >>

\* line 105: minute_ago = now - 60
minute_ago(t) == t - RateWindow

\* line 106: [req_time for req_time in request_counts[ip] if req_time > minute_ago]
Recent(times, t) == SelectSeq(times, LAMBDA req_time : req_time > minute_ago(t))

LimitReached_over(times) == Len(times) > RATE_LIMIT

\* line 108: len(request_counts[ip]) >= RATE_LIMIT
LimitReached(times) == Len(times) >= RATE_LIMIT

\* lines 103-112: check_rate_limit(ip), reading time.time() = t
check_rate_limit(ip, t, endpoint) ==
    LET recent == Recent(RequestTimes(ip), t)
        result == ~ LimitReached(recent)
        kept == IF result THEN Append(recent, t) ELSE recent
    IN  /\ api_time' = t
        /\ request_counts' =
               [i \in DOMAIN request_counts \cup {ip} |->
                   IF i = ip THEN kept ELSE request_counts[i]]
        /\ request_log' =
               Append(request_log,
                      [ip |-> ip, time |-> t, result |-> result,
                       endpoint |-> endpoint,
                       response |-> IF endpoint = "none" THEN "none"
                                    ELSE IF result THEN "continue" ELSE "429"])

\* a call of check_rate_limit for any client address
CheckRateLimit ==
    \E ip \in ClientIPs, elapsed \in Delays :
        /\ Len(request_log) < MaxCalls
        /\ check_rate_limit(ip, api_time + elapsed, "none")
        /\ UNCHANGED <<ledgerVars, batchVars, monitorVars, report_results,
                       fetch_log, hourlyVars, build_log>>

\* lines 940-948: POST /api/ai/completion up to its rate limit check
ai_completion ==
    \E elapsed \in Delays :
        /\ Len(request_log) < MaxCalls
        /\ check_rate_limit(PlaceholderIP, api_time + elapsed, "ai_completion")
        /\ UNCHANGED <<ledgerVars, batchVars, monitorVars, report_results,
                       fetch_log, hourlyVars, build_log>>

NextApi == CheckRateLimit \/ ai_completion

SpecApi == Init /\ [][NextApi]_vars

----------------------------------------------------------------------------
(* Properties of the rate limiter *)

\* a step that completes a send_alert call
CallCompleted == outcome'.serial # outcome.serial

\* C1: once a send for a key is recorded at time t, a send_alert for that key
\* whose rate check runs less than min_alert_interval after t is rejected,
\* and one whose rate check runs min_alert_interval or more after t passes
\* when fewer than max_alerts_per_day sends are recorded on the check's day
C1_MinInterval ==
    [][ CallCompleted =>
          LET k == outcome'.key
          IN  k \in DOMAIN sent_last =>
                /\ now - sent_last[k] < min_alert_interval => ~ outcome'.passed
                /\ ( /\ now - sent_last[k] >= min_alert_interval
                     /\ CountOf(sent_count, Today(now)) < max_alerts_per_day )
                   => outcome'.passed ]_vars

\* a send_alert was rejected one minute after the recorded send for its key,
\* with the daily cap not reached
C1_Witness ==
    /\ outcome.key \in DOMAIN sent_last
    /\ ~ outcome.passed
    /\ now - sent_last[outcome.key] = 1
    /\ CountOf(sent_count, Today(now)) < max_alerts_per_day

\* C2: no calendar day has more than max_alerts_per_day recorded sends, and
\* once max_alerts_per_day sends are recorded today the rate check returns
\* false for every key, sent before or not
C2_DailyCap ==
    /\ \A d \in DOMAIN sent_count : sent_count[d] <= max_alerts_per_day
    /\ CountOf(sent_count, Today(now)) >= max_alerts_per_day =>
          \A k \in AlertKeys \cup {"U9_L9_E9"} :
              ~ can_send_alert(k, now, daily_alert_count, last_alert_times)

\* the cap is reached today and a call was rejected although its key's
\* interval has elapsed or the key was never sent
C2_Witness ==
    /\ CountOf(sent_count, Today(now)) = max_alerts_per_day
    /\ outcome.key # "" /\ ~ outcome.passed
    /\ \/ outcome.key \notin DOMAIN sent_last
       \/ now - sent_last[outcome.key] >= min_alert_interval

\* C3: two callers of send_alert never both pass the rate check for one key
\* within min_alert_interval, and the day counter never exceeds
\* max_alerts_per_day
C3_Atomic ==
    /\ \A t, u \in Threads :
          ( /\ t # u
            /\ threads[t].pc = "sending" /\ threads[u].pc = "sending"
            /\ threads[t].key = threads[u].key )
          => threads[t].checked_at - threads[u].checked_at >= min_alert_interval
             \/ threads[u].checked_at - threads[t].checked_at >= min_alert_interval
    /\ \A d \in DOMAIN daily_alert_count :
          daily_alert_count[d] <= max_alerts_per_day

----------------------------------------------------------------------------
(* Properties of the aggregation *)

Built == "nodes" \in DOMAIN hierarchy
BuiltBasic == "nodes" \in DOMAIN hierarchy_data

IsPrefix(p, q) == Len(p) <= Len(q) /\ SubSeq(q, 1, Len(p)) = p

\* the child nodes of a node above the device level
ChildNodes(h, p) ==
    { c \in DOMAIN h.nodes : Len(c) = Len(p) + 1 /\ IsPrefix(p, c) }

\* the employee leaves of a device node
ChildLeaves(h, p) == { q \in DOMAIN h.employees : IsPrefix(p, q) }

\* the rows of the batch that lie below a node, or at a leaf
RowsUnder(p) ==
    { i \in 1..Len(production_data) : IsPrefix(p, LeafPath(production_data[i])) }

Produced(S) == SumOver([i \in S |-> production_data[i].ProdnPcs], S)
Target(S) == SumOver([i \in S |-> production_data[i].Eff100], S)

\* the totals of the nodes above the device level are the sums of their
\* child nodes
NodeSumsHold(h) ==
    \A p \in DOMAIN h.nodes :
        Len(p) < 7 =>
            /\ h.nodes[p].total_production =
                 SumOver([c \in ChildNodes(h, p) |-> h.nodes[c].total_production],
                         ChildNodes(h, p))
            /\ h.nodes[p].total_target =
                 SumOver([c \in ChildNodes(h, p) |-> h.nodes[c].total_target],
                         ChildNodes(h, p))

\* the totals of a device node are the sums of its employee leaves
LeafSumsHold(h, p) ==
    /\ h.nodes[p].total_production =
         SumOver([q \in ChildLeaves(h, p) |-> h.employees[q].production],
                 ChildLeaves(h, p))
    /\ h.nodes[p].total_target =
         SumOver([q \in ChildLeaves(h, p) |-> h.employees[q].target],
                 ChildLeaves(h, p))

\* every node's totals are the sums over all the rows below it
RowSumsHold(h) ==
    \A p \in DOMAIN h.nodes :
        /\ h.nodes[p].total_production = Produced(RowsUnder(p))
        /\ h.nodes[p].total_target = Target(RowsUnder(p))

\* two rows of the batch map to one employee leaf below p
DuplicateLeafUnder(p) ==
    \E i, j \in RowsUnder(p) :
        i # j /\ LeafPath(production_data[i]) = LeafPath(production_data[j])

ChildSums(h) ==
    /\ NodeSumsHold(h)
    /\ \A p \in DOMAIN h.nodes : Len(p) = 7 => LeafSumsHold(h, p)

ChildSumsAmended(h) ==
    /\ NodeSumsHold(h)
    /\ RowSumsHold(h)
    /\ \A p \in DOMAIN h.nodes :
          (Len(p) = 7 /\ ~ DuplicateLeafUnder(p)) => LeafSumsHold(h, p)

\* C5 as stated: after the hierarchy is built every non-leaf node's totals
\* equal the sum of its children's values (child nodes, or employee leaves
\* for a device), for every batch and in both hierarchy builders
C5_ChildSums ==
    /\ Built => ChildSums(hierarchy)
    /\ BuiltBasic => ChildSums(hierarchy_data)

\* C5 amended: every node from unit to operation has totals equal to the sum
\* of its child nodes, every node's totals are the sums over all the rows of
\* the batch below it, and a device's totals equal the sum of its employee
\* leaves when no two rows of the batch map to the same leaf below it
C5_ChildSumsAmended ==
    /\ Built => ChildSumsAmended(hierarchy)
    /\ BuiltBasic => ChildSumsAmended(hierarchy_data)

\* both trees are built, a node has two child nodes, and a device that two
\* rows of one employee lie below has totals above the sum of its leaves
C5_Witness ==
    /\ Built /\ BuiltBasic
    /\ \E p \in DOMAIN hierarchy.nodes :
          Len(p) < 7 /\ Cardinality(ChildNodes(hierarchy, p)) = 2
    /\ \E p \in DOMAIN hierarchy.nodes :
          /\ Len(p) = 7 /\ DuplicateLeafUnder(p)
          /\ ~ LeafSumsHold(hierarchy, p)
          /\ ~ LeafSumsHold(hierarchy_data, p)

\* the leaves hold the last row mapped to them and the nodes add every row
LastRowWins(h) ==
    /\ \A q \in DOMAIN h.employees :
          LET last == MaxOf(RowsUnder(q))
              data == production_data[last]
          IN  /\ h.employees[q].production = data.ProdnPcs
              /\ h.employees[q].target = data.Eff100
              /\ h.employees[q].efficiency =
                    IF data.Eff100 > 0
                    THEN Round2(<<data.ProdnPcs * 100, data.Eff100>>)
                    ELSE 0
    /\ \A p \in DOMAIN h.nodes :
          /\ h.nodes[p].total_production = Produced(RowsUnder(p))
          /\ h.nodes[p].total_target = Target(RowsUnder(p))

\* C6: a leaf that several rows map to holds the production, target and
\* efficiency of the last of them, and every ancestor's totals include the
\* pieces of every row
C6_LastRowWins ==
    /\ Built => LastRowWins(hierarchy)
    /\ BuiltBasic => LastRowWins(hierarchy_data)

\* both trees are built from a batch in which two rows with different pieces
\* map to one leaf
C6_Witness ==
    /\ Built /\ BuiltBasic
    /\ \E q \in DOMAIN hierarchy.employees :
          \E i, j \in RowsUnder(q) :
              /\ i < j
              /\ production_data[i].ProdnPcs # production_data[j].ProdnPcs
              /\ production_data[i].Eff100 # production_data[j].Eff100

----------------------------------------------------------------------------
(* Properties of detection and classification *)

Processed == efficiency_analysis.status = "success"
Analysed == analysis_result.status = "success"

\* the rows an underperformer list reports
FlaggedRows(underperformers) ==
    { underperformers[j].row : j \in 1..Len(underperformers) }

\* the rounded efficiencies of the rows of the batch in the (line, operation)
\* group of row i
GroupEfficiencies(i) ==
    { Round2(calculate_efficiency(production_data[j])) :
        j \in { k \in 1..Len(production_data) :
                  /\ production_data[k].LineName = production_data[i].LineName
                  /\ production_data[k].NewOperSeq = production_data[i].NewOperSeq } }

\* C7: a row is reported by process_efficiency_analysis exactly when its
\* efficiency is below 0.85 times the best efficiency of its (line,
\* operation) group in the whole batch, whatever the order of the rows
C7_RelativeDetection ==
    Processed =>
        \A i \in 1..Len(production_data) :
            i \in FlaggedRows(efficiency_analysis.underperformers)
            <=> Round2(calculate_efficiency(production_data[i])) * 100
                   < MaxOf(GroupEfficiencies(i)) * 85

CategorizedAs(i) ==
    { b \in Bands :
        \E j \in 1..Len(analysis_result.performance_categories[b]) :
            analysis_result.performance_categories[b][j].row = i }

LeafBand(i) == hierarchy.employees[LeafPath(production_data[i])].performance_category

StatusBand(i) == efficiency_analysis.operators[i].status

\* the band the thresholds (95, 85, 70) give the exact efficiencies 96, 90,
\* 80 and 60
ExpectedBand(i, band) ==
    LET eff == calculate_efficiency(production_data[i])
    IN  /\ eff = <<9600, 100>> \/ eff = <<2400, 25>> => band = "excellent"
        /\ eff = <<9000, 100>> \/ eff = <<1800, 20>> => band = "good"
        /\ eff = <<8000, 100>> \/ eff = <<1600, 20>> \/ eff = <<2000, 25>>
              => band = "needs_improvement"
        /\ eff = <<6000, 100>> \/ eff = <<1200, 20>> \/ eff = <<1500, 25>>
              => band = "critical"

\* C9: each classifier gives every row exactly one band, never a lower band
\* to a higher efficiency, and with thresholds (95, 85, 70) maps 96, 90, 80,
\* 60 to excellent, good, needs_improvement, critical
C9_Classification ==
    (Analysed /\ Built /\ Processed /\ Len(production_data) = 2
       /\ LeafPath(production_data[1]) # LeafPath(production_data[2])
       /\ alerts_config = DefaultAlertConfig) =>
        /\ \A i \in 1..2 :
              /\ Cardinality(CategorizedAs(i)) = 1
              /\ LeafBand(i) \in Bands
              /\ StatusBand(i) \in Bands
              /\ \A b \in CategorizedAs(i) : ExpectedBand(i, b)
              /\ ExpectedBand(i, LeafBand(i))
              /\ ExpectedBand(i, StatusBand(i))
        /\ \A i, j \in 1..2 :
              RatLeq(calculate_efficiency(production_data[i]),
                     calculate_efficiency(production_data[j])) =>
                  /\ \A a \in CategorizedAs(i), b \in CategorizedAs(j) :
                        Rank(a) <= Rank(b)
                  /\ Rank(LeafBand(i)) <= Rank(LeafBand(j))
                  /\ Rank(StatusBand(i)) <= Rank(StatusBand(j))

\* the efficiency the claim gives produced pieces over a target
ClaimedEfficiency(produced, target) ==
    IF target = 0 THEN Zero ELSE <<produced * 100, target>>

SameRational(x, y) == x[1] * y[2] = y[1] * x[2]

\* C10: every row's and every node's efficiency is 0 when its target is 0
\* and produced / target * 100 >= 0 otherwise, and no division by zero is
\* raised by the aggregation, the analysis or the classifier
C10_NoDivisionFault ==
    (Analysed /\ Built) =>
        /\ \A i \in 1..Len(production_data) :
              LET data == production_data[i]
                  eff == analysis_result.efficiency_data[i].efficiency
                  leaf == hierarchy.employees[LeafPath(data)].efficiency
              IN  /\ eff = Round2(ClaimedEfficiency(data.ProdnPcs, data.Eff100))
                  /\ eff >= 0
                  /\ leaf >= 0
                  /\ Cardinality(CategorizedAs(i)) = 1
        /\ \A p \in DOMAIN hierarchy.nodes :
              LET node == hierarchy.nodes[p]
              IN  /\ ~ ZeroDivisionError(node.efficiency)
                  /\ SameRational(node.efficiency,
                        ClaimedEfficiency(node.total_production, node.total_target))
                  /\ node.total_target = 0 => node.efficiency[1] = 0
                  /\ node.efficiency[1] >= 0
        /\ analysis_result.overall_efficiency =
              Round2(ClaimedEfficiency(analysis_result.total_production,
                                       analysis_result.total_target))
        /\ analysis_result.overall_efficiency >= 0

\* an analysed batch where a row with target 0 lies between rows with a
\* positive target on the same device
C10_Witness ==
    /\ Analysed /\ Built
    /\ Len(production_data) = 3
    /\ production_data[1].Eff100 > 0
    /\ production_data[2].Eff100 = 0 /\ production_data[2].ProdnPcs > 0
    /\ production_data[3].Eff100 > 0
    /\ NodePath(production_data[1]) = NodePath(production_data[2])
    /\ NodePath(production_data[2]) = NodePath(production_data[3])

----------------------------------------------------------------------------
(* Properties of the monitoring loop *)

CycleRunning == cycle.pc # "idle"

\* C11: a cycle never starts while a cycle of the same loop is running (the
\* loop is inside the job for as long as the cycle runs), and after a cycle
\* that ran past one or more ticks of the interval at most one cycle starts
\* before the next tick
C11_SingleFlight ==
    /\ ~ monitor_log.overlapped
    /\ CycleRunning => loop_pc = "job"
    /\ monitor_log.window_starts <= 1

\* a second cycle has started after a cycle that ran longer than the interval
C11_Witness ==
    /\ cycle.pc = "fetch"
    /\ monitor_log.cycles = 2
    /\ monitor_log.window_end > 0
    /\ now >= monitor_log.finished_at + ScheduleInterval

\* the threads take their steps and time passes
MonitorFairness ==
    /\ WF_vars(Tick)
    /\ WF_vars(Register)
    /\ WF_vars(RunPending)
    /\ WF_vars(Wake)
    /\ WF_vars(Fetch)
    /\ WF_vars(Analyse)
    /\ WF_vars(Dispatch)

SpecMonitorFair == SpecMonitor /\ MonitorFairness

FailedResults == {"no_data", "error", "dispatch_error"}

\* the last cycle failed and has returned
FailedCycle == ~ CycleRunning /\ monitor_log.result \in FailedResults

\* no exception has escaped the job
NothingEscaped == loop_pc # "crashed" /\ cycle.pc # "crashed"

\* a cycle that follows another started a full interval after it returned
NoBusyRetry ==
    (CycleRunning /\ monitor_log.result # "none")
        => cycle.started_at >= monitor_log.finished_at + ScheduleInterval

\* the step that ends a cycle leaves is_monitoring alone and the loop asleep
CycleEndKeepsLoop ==
    (CycleRunning /\ ~ CycleRunning')
        => /\ is_monitoring' = is_monitoring
           /\ loop_pc' = "sleep"
           /\ next_run' = now + ScheduleInterval

\* C12: when the fetch fails or a step of the cycle raises, no exception
\* escapes automated_analysis_and_alerts, the loop goes back to sleep with
\* is_monitoring unchanged, the fetch is not repeated before the next tick,
\* and the next tick runs a cycle unless monitoring is stopped first
C12_LoopSurvives ==
    /\ [](NothingEscaped /\ NoBusyRetry)
    /\ [][CycleEndKeepsLoop]_vars
    /\ (FailedCycle /\ is_monitoring /\ next_run <= MaxNow)
          ~> (cycle.pc = "fetch" \/ ~ is_monitoring)

\* a cycle is running after a cycle whose fetch failed or whose analysis
\* raised, and monitoring is still on
C12_Witness ==
    /\ cycle.pc = "fetch"
    /\ monitor_log.result \in {"no_data", "error"}
    /\ is_monitoring
    /\ loop_pc = "job"

\* the last cycle ran its loop over the underperformers to the end
DispatchCompleted ==
    ~ CycleRunning /\ monitor_log.result = "completed" /\ monitor_log.flagged > 0

\* C13: in a cycle whose dispatch ran to the end, every underperformer entry
\* produced by the detection, HIGH or MEDIUM, was submitted to send_alert
\* (and so to can_send_alert, whose acceptance is followed by the deliveries)
C13_AllSubmitted ==
    DispatchCompleted => monitor_log.submitted = 1..monitor_log.flagged

----------------------------------------------------------------------------
(* Properties of the empty batch and of singleton groups *)

\* a result that reports neither an efficiency nor underperformers
IsNoData(result) == result.status = "no_data" /\ DOMAIN result = {"status"}

\* the tree has no node and no leaf: the totals over its units are zero
EmptyRoot(h) == DOMAIN h.nodes = {} /\ DOMAIN h.employees = {}

\* C14: for a batch with no rows the tree is an empty root (zero totals)
\* and both analyses return the no-data result, which carries no efficiency
\* and no underperformers; every non-empty batch, whatever its efficiency,
\* gets the success status and a tree with at least one node
C14_EmptyBatch ==
    /\ production_data = << >> =>
          /\ analysis_result # NotRun => IsNoData(analysis_result)
          /\ efficiency_analysis # NotRun => IsNoData(efficiency_analysis)
          /\ Built => EmptyRoot(hierarchy)
    /\ production_data # << >> =>
          /\ analysis_result # NotRun =>
                /\ analysis_result.status = "success"
                /\ "overall_efficiency" \in DOMAIN analysis_result
          /\ efficiency_analysis # NotRun =>
                efficiency_analysis.status = "success"
          /\ Built => ~ EmptyRoot(hierarchy)

\* the empty batch has been analysed by both programs and aggregated
C14_Witness ==
    /\ production_data = << >>
    /\ analysis_result # NotRun
    /\ efficiency_analysis # NotRun
    /\ Built

----------------------------------------------------------------------------
(* Properties of repeated aggregation *)

\* C15: whatever trees were built before, a call of either builder returns
\* the tree built from its batch alone, so a second call on the same batch
\* returns an identical tree and nothing of an earlier tree survives
C15_Stateless ==
    [][ /\ hierarchy' # hierarchy =>
              hierarchy' = get_enhanced_hierarchy_data(production_data')
        /\ hierarchy_data' # hierarchy_data =>
              hierarchy_data' = get_hierarchy_data(production_data')
        /\ build_log'.enhanced = "repeated" => hierarchy' = hierarchy
        /\ build_log'.basic = "repeated" => hierarchy_data' = hierarchy_data ]_vars

\* one builder has just returned the same tree again for the batch of two
\* rows it was last called with, and the other has replaced the tree of an
\* earlier, larger batch by the tree of a one-row batch
C15_Witness ==
    /\ build_log.enhanced = "repeated"
    /\ build_log.basic = "replaced"
    /\ Len(production_data) = 1
    /\ Cardinality(DOMAIN hierarchy.employees) = 2
    /\ hierarchy_data = get_hierarchy_data(production_data)

\* the rows of the batch in the (line, operation) group of row i
GroupOf(i) ==
    { k \in 1..Len(production_data) :
        /\ production_data[k].LineName = production_data[i].LineName
        /\ production_data[k].NewOperSeq = production_data[i].NewOperSeq }

\* C16: a row that is the only row of its (line, operation) group in the
\* batch is not in the underperformers of process_efficiency_analysis,
\* whatever its efficiency and whatever other groups the batch holds
C16_SingletonNeverFlagged ==
    Processed =>
        \A i \in 1..Len(production_data) :
            GroupOf(i) = {i} =>
                i \notin FlaggedRows(efficiency_analysis.underperformers)

\* a processed batch in which a row of efficiency 0 is alone in its group
\* while a row of another group is flagged
C16_Witness ==
    /\ Processed
    /\ \E i \in 1..Len(production_data) :
          /\ GroupOf(i) = {i}
          /\ Round2(calculate_efficiency(production_data[i])) = 0
    /\ FlaggedRows(efficiency_analysis.underperformers) # {}

----------------------------------------------------------------------------
(* Properties of the alert key *)

\* the composite (unit, line, employeeOrPart, operation) of an alert
Identity(alert) ==
    << Get(alert, "unit_id", ""), Get(alert, "line_id", ""),
       Get(alert, "employee", ""), Get(alert, "operation_id", "") >>

\* the call was rejected by the interval rule: the daily cap was not reached
RejectedByInterval ==
    /\ CallCompleted
    /\ ~ outcome'.passed
    /\ CountsAfterCheck(daily_alert_count, now)[Today(now)] < max_alerts_per_day

\* C17: two alerts have one key exactly when their (unit, line,
\* employeeOrPart, operation) are equal, and a call rejected by the interval
\* rule was rejected because of a recorded send of an alert with the same
\* four components
C17_CompositeKey ==
    /\ [](\A a, b \in Alerts :
              (Identity(a) = Identity(b)) => (alert_key(a) = alert_key(b)))
    /\ [][ RejectedByInterval =>
              /\ outcome'.key \in DOMAIN sent_alert
              /\ Identity(sent_alert[outcome'.key]) = Identity(outcome'.alert) ]_vars

----------------------------------------------------------------------------
(* Properties of the ledger's size *)

\* C18: after every rate check and recorded send the ledger holds no
\* lastSentAt entry older than 48 hours and no counter of a day that ended
\* more than 48 hours ago
C18_LedgerBounded ==
    [][ CallCompleted =>
           /\ \A key \in DOMAIN last_alert_times' :
                  now' - last_alert_times'[key] <= 2 * MinutesPerDay
           /\ \A day \in DOMAIN daily_alert_count' :
                  now' - (day + 1) * MinutesPerDay <= 2 * MinutesPerDay ]_vars

----------------------------------------------------------------------------
(* Properties of the hourly report *)

\* the number of flagged employees a result reports, under either of its keys
FlaggedCountOf(result) ==
    IF "flagged_count" \in DOMAIN result
    THEN result.flagged_count
    ELSE result.flagged_employees

\* both modes have run to their end on the same fetched data
SameFetch ==
    /\ report_results[TRUE].status = "success"
    /\ report_results[FALSE].status = "success"
    /\ report_results[TRUE].fetched = report_results[FALSE].fetched

\* C19: for the same fetched data, a run in test mode and a run in
\* production mode execute the same steps and report the same flagged count
\* and lines affected, and the test-mode run sends to the test numbers
C19_TestModeEquivalence ==
    SameFetch =>
        /\ report_results[TRUE].steps = report_results[FALSE].steps
        /\ FlaggedCountOf(report_results[TRUE])
              = FlaggedCountOf(report_results[FALSE])
        /\ report_results[TRUE].lines_affected
              = report_results[FALSE].lines_affected
        /\ report_results[TRUE].whatsapp_sent_to = test_numbers

----------------------------------------------------------------------------
(* Properties of stopping the monitoring loop *)

\* stop_monitoring has been called and the running cycle is between two of
\* its steps: the fetch has returned, or the analysis, or a dispatch
StoppedBetweenSteps ==
    /\ ~ is_monitoring
    /\ cycle.pc \in {"analyse", "dispatch"}

\* the results with which a cycle ends after running a step
StepResults == {"completed", "error", "dispatch_error"}

\* C20: once stop_monitoring has been called, a cycle that is between two
\* steps starts no further step and dispatches no further alert: its next
\* step only ends it
C20_CooperativeCancel ==
    [][ StoppedBetweenSteps =>
           /\ cycle' \in {cycle, NoCycle}
           /\ ~ CallCompleted
           /\ cycle' # cycle => monitor_log'.result \notin StepResults ]_vars

----------------------------------------------------------------------------
(* Properties of the fetch *)

\* C21: a cycle whose fetch failed does not end with the result of a cycle
\* whose fetch succeeded with zero rows: a failed fetch is never reported as
\* no data, and an empty batch always is
C21_ErrorTaxonomy ==
    /\ monitor_log.fetched = "failed" => monitor_log.result # "no_data"
    /\ monitor_log.fetched = "empty" => monitor_log.result = "no_data"

\* the rows of the DataFrame that convert, in their order
WellFormed(df) == SelectSeq(df, LAMBDA row : ~ RowRaises(row))

\* the fetch reached the database
Fetched == fetch_log.status = "fetched" /\ fetch_log.connected

\* every row that converts is returned, converted, in its original order,
\* whatever the other rows of the batch are
C22_OthersReturned ==
    Fetched =>
        /\ Len(production_data) = Len(WellFormed(fetch_log.df))
        /\ \A i \in 1..Len(production_data) :
               production_data[i] = ConvertRow(WellFormed(fetch_log.df)[i])

\* C22: when a row of a fetched batch fails coercion it is skipped and
\* counted, and every other row is still converted and returned in its
\* original order
C22_MalformedRows ==
    /\ C22_OthersReturned
    /\ Fetched =>
          fetch_log.skipped
              = Len(fetch_log.df) - Len(WellFormed(fetch_log.df))

----------------------------------------------------------------------------
(* Properties of the hourly scheduler *)

\* C23: get_status().scheduler_running (is_running) is true exactly when
\* the last call was a start; a start while the scheduler is running
\* registers no job and starts no thread; after a stop no job is registered
C23_SchedulerState ==
    /\ [](is_running <=> hourly_log.last_call = "start")
    /\ [](hourly_log.last_call = "stop" => hourly_jobs.registered = {})
    /\ [][ is_running =>
              /\ hourly_jobs'.registered \subseteq hourly_jobs.registered
              /\ DOMAIN hourly_threads' = DOMAIN hourly_threads ]_vars

\* a start was issued while the scheduler was running, after a stop and a
\* second start
C23_Witness ==
    /\ hourly_log = [last_call |-> "start", ignored |-> TRUE]
    /\ Cardinality(DOMAIN hourly_threads) = 2
    /\ Cardinality(hourly_jobs.registered) = 1

\* the run_scheduler threads that have not returned
AliveThreads ==
    { t \in DOMAIN hourly_threads : hourly_threads[t].pc # "exited" }

\* C28: at most one scheduler thread is alive, and the hourly report job is
\* never executed by two threads at once
C28_OneSchedulerThread ==
    /\ Cardinality(AliveThreads) <= 1
    /\ Cardinality({ t \in DOMAIN hourly_threads :
                       hourly_threads[t].pc = "job" }) <= 1

----------------------------------------------------------------------------
(* Properties of a report run without flagged employees *)

\* the last run in this mode fetched no flagged employee and did not fail
RanEmpty(test_mode) ==
    /\ report_results[test_mode].status = "success"
    /\ report_results[test_mode].fetched = << >>

\* C24: with test_mode=false and no flagged employee the run returns
\* success with flagged_count 0, writes no file, attempts no send and leaves
\* last_report_time unchanged; with test_mode=true a report is generated, a
\* send is attempted to every test number and last_report_time is set to
\* the run's timestamp
C24_EmptyReport ==
    /\ [](RanEmpty(FALSE) =>
              /\ report_results[FALSE].flagged_count = 0
              /\ report_results[FALSE].files = {}
              /\ report_results[FALSE].send_attempts = 0)
    /\ [](RanEmpty(TRUE) =>
              /\ "report_generated" \in DOMAIN report_results[TRUE]
              /\ "pdf" \in report_results[TRUE].files
              /\ report_results[TRUE].send_attempts = Len(test_numbers)
              /\ report_results[TRUE].whatsapp_sent_to = test_numbers)
    /\ [][ (report_results'[FALSE] # report_results[FALSE] /\ RanEmpty(FALSE)')
              => last_report_time' = last_report_time ]_vars
    /\ [][ (report_results'[TRUE] # report_results[TRUE] /\ RanEmpty(TRUE)')
              => last_report_time' = now ]_vars

\* a production run without flagged employees has followed, at a later
\* minute, a test run without flagged employees
C24_Witness ==
    /\ RanEmpty(FALSE)
    /\ RanEmpty(TRUE)
    /\ last_report_time # NoReportTime
    /\ last_report_time < now

----------------------------------------------------------------------------
(* Properties of a suppressed alert *)

\* C25: a send_alert call rejected by the rate limiter returns False, calls
\* send_message for no recipient, and leaves last_alert_times of every key
\* and the current day's counter unchanged
C25_SuppressedOutcome ==
    [][ (CallCompleted /\ ~ outcome'.passed) =>
           /\ ~ outcome'.delivered
           /\ ~ outcome'.attempted
           /\ last_alert_times' = last_alert_times
           /\ sent_last' = sent_last
           /\ CountOf(daily_alert_count', Today(now'))
                 = CountOf(daily_alert_count, Today(now'))
           /\ sent_count' = sent_count ]_vars

\* a call was rejected by the interval rule on the first check of a new
\* day, which replaces the day counters
C25_Witness ==
    /\ outcome.key # "" /\ ~ outcome.passed
    /\ outcome.key \in DOMAIN last_alert_times
    /\ Today(last_alert_times[outcome.key]) < Today(now)
    /\ daily_alert_count = (Today(now) :> 0)

----------------------------------------------------------------------------
(* Properties of the day rollover *)

\* C26: the counter kept for a day counts exactly the sends recorded on
\* that day, also when the date changes between a rate check and its record,
\* and a rate check for a key whose interval has elapsed (or that was never
\* sent) passes whenever fewer than max_alerts_per_day sends are recorded on
\* the day of the check, whatever was recorded on earlier days
C26_DayRollover ==
    /\ [](\A day \in DOMAIN daily_alert_count :
              daily_alert_count[day] = CountOf(sent_count, day))
    /\ [][ CallCompleted =>
              LET k == outcome'.key
              IN  ( /\ k \in DOMAIN sent_last =>
                          now - sent_last[k] >= min_alert_interval
                    /\ CountOf(sent_count, Today(now)) < max_alerts_per_day )
                  => outcome'.passed ]_vars

\* the cap was exhausted yesterday, and today a call for a key sent
\* yesterday has passed the rate check and was recorded
C26_Witness ==
    /\ CountOf(sent_count, Today(now) - 1) = max_alerts_per_day
    /\ outcome.passed /\ outcome.delivered
    /\ daily_alert_count = (Today(now) :> 1)
    /\ \E k \in DOMAIN sent_last : Today(sent_last[k]) < Today(now)

----------------------------------------------------------------------------
(* Properties of a stop issued at any time *)

\* C27: after stop_monitoring has been called no cycle starts, and the
\* loop's next while test ends the loop
C27_StopNeverLost ==
    [][ monitor_log.stopped =>
           /\ cycle.pc = "idle" => cycle'.pc = "idle"
           /\ loop_pc = "test" => loop_pc' = "exited" ]_vars

----------------------------------------------------------------------------
(* Properties of the hierarchy counters *)

\* the unit nodes of a tree
UnitNodes(h) == { p \in DOMAIN h.nodes : Len(p) = 1 }

\* C29: in the tree of get_enhanced_hierarchy_data every node from unit
\* down to operation has total_production, total_target, employee_count and
\* underperformer_count equal to the sums over its child nodes; at every
\* node 0 <= underperformer_count <= employee_count; and the employee_count
\* of the unit nodes add up to the number of rows of the batch
C29_HierarchyCounters ==
    Built =>
        /\ \A p \in DOMAIN hierarchy.nodes :
              Len(p) < 7 =>
                 LET C == ChildNodes(hierarchy, p)
                     node == hierarchy.nodes[p]
                 IN  /\ node.total_production =
                          SumOver([c \in C |-> hierarchy.nodes[c].total_production], C)
                     /\ node.total_target =
                          SumOver([c \in C |-> hierarchy.nodes[c].total_target], C)
                     /\ node.employee_count =
                          SumOver([c \in C |-> hierarchy.nodes[c].employee_count], C)
                     /\ node.underperformer_count =
                          SumOver([c \in C |-> hierarchy.nodes[c].underperformer_count], C)
        /\ \A p \in DOMAIN hierarchy.nodes :
              /\ 0 <= hierarchy.nodes[p].underperformer_count
              /\ hierarchy.nodes[p].underperformer_count
                    <= hierarchy.nodes[p].employee_count
        /\ SumOver([p \in UnitNodes(hierarchy) |-> hierarchy.nodes[p].employee_count],
                   UnitNodes(hierarchy))
              = Len(production_data)

\* a tree of two units built from a batch of MaxRows rows, with a node that
\* has two child nodes and counts some but not all of its rows as
\* underperformers
C29_Witness ==
    /\ Built
    /\ Len(production_data) = MaxRows
    /\ Cardinality(UnitNodes(hierarchy)) = 2
    /\ \E p \in DOMAIN hierarchy.nodes :
          /\ Len(p) < 7
          /\ Cardinality(ChildNodes(hierarchy, p)) = 2
          /\ 0 < hierarchy.nodes[p].underperformer_count
          /\ hierarchy.nodes[p].underperformer_count
                < hierarchy.nodes[p].employee_count

----------------------------------------------------------------------------
(* Properties of the API request rate limit *)

\* the calls of the log before call k that were made for ip, returned True
\* and fall in the window of RateWindow seconds that ends at time t
AdmittedBefore(k, ip, t) ==
    { j \in 1..(k - 1) : /\ request_log[j].ip = ip
                         /\ request_log[j].result
                         /\ request_log[j].time > t - RateWindow
                         /\ request_log[j].time <= t }

\* the times of the admitted calls of ip that request_counts may still hold:
\* those in the window that ends at the last call made for ip
AdmittedTimes(ip) ==
    LET mine == { j \in 1..Len(request_log) : request_log[j].ip = ip }
        last == CHOOSE j \in mine : \A i \in mine : i <= j
        keep(j) == /\ request_log[j].ip = ip
                   /\ request_log[j].result
                   /\ request_log[j].time > request_log[last].time - RateWindow
    IN  IF mine = {} THEN << >>
        ELSE [j \in 1..Cardinality({ i \in 1..Len(request_log) : keep(i) }) |->
                 LET idx == CHOOSE i \in 1..Len(request_log) :
                               /\ keep(i)
                               /\ Cardinality({ h \in 1..i : keep(h) }) = j
                 IN  request_log[idx].time]

\* C30: for every client IP at most RATE_LIMIT calls return True within any
\* window of RateWindow seconds (a window holds the times later than its
\* start, up to and including its end); a call that returns False is not
\* recorded and does not change any later outcome, every outcome being
\* decided by the admitted calls of the same IP alone; and the calls of one
\* IP never change the outcome for another IP
C30_RequestRateLimit ==
    /\ \A k \in 1..Len(request_log) :
          LET call == request_log[k]
          IN  /\ Cardinality(AdmittedBefore(k + 1, call.ip, call.time))
                    <= RATE_LIMIT
              /\ call.result
                    = (Cardinality(AdmittedBefore(k, call.ip, call.time))
                          < RATE_LIMIT)
    /\ \A ip \in DOMAIN request_counts : request_counts[ip] = AdmittedTimes(ip)

\* a client is refused, is admitted again once the window has passed, and
\* another client was admitted while the first one was refused
C30_Witness ==
    \E a, b, c \in 1..Len(request_log) :
        /\ a < b
        /\ ~ request_log[a].result
        /\ request_log[b].ip = request_log[a].ip
        /\ request_log[b].result
        /\ a < c
        /\ request_log[c].ip # request_log[a].ip
        /\ request_log[c].time = request_log[a].time
        /\ request_log[c].result

====
